---- MODULE Spec2Model ----
(***************************************************************************)
(* Model of horn.py: a notifier that resolves an event name to a .wav file *)
(* of the current theme and plays it through an external player process,   *)
(* plus the sys.excepthook / IPython integration built on top of it.       *)
(*                                                                         *)
(* A path below the themes root is a tuple: << >> is the themes root,      *)
(* <<t>> is themes/t and <<t, e>> is themes/t/e.wav.                       *)
(* Environment assumptions: a shell is available, so a player that cannot  *)
(* be started shows as the shell's exit status 127; the exit status of a   *)
(* player is not determined by the program.                                *)
(***************************************************************************)
EXTENDS Integers, Sequences, FiniteSets, TLC

\* ---- bounds ----
\* detached player processes that may be alive at one time
MaxRunning == 1
\* sound files that may be missing from the theme directories in total
MaxMissing == 1
\* post_run_cell callbacks that may be registered
MaxWatchers == 1

\* ---- fixed sets ----
Events == {"success", "warning", "error", "info"}
Names == {"mario", "zelda"}
Platforms == {"darwin", "linux"}
ExitCodes == {0, 1, 127}
Programs == {"ok", "raise_Exception", "raise_BaseException"}
None == "None"

VARIABLES
    THEME,        \* module global THEME
    platform,     \* sys.platform
    rootExists,   \* the themes root directory exists
    fs,           \* entries under the themes root
    running,      \* detached player processes that have not exited yet
    excepthook,   \* sys.excepthook
    IPYTHON_INSTALLED, \* module global IPYTHON_INSTALLED
    in_shell,     \* the process is an IPython shell, so get_ipython is defined
    watchers,     \* post_run_cell callbacks registered with the shell
    magics,       \* HornMagics registered with the shell
    last          \* what the most recent call did and returned

vars == <<THEME, platform, rootExists, fs, running, excepthook,
          IPYTHON_INSTALLED, in_shell, watchers, magics, last>>

\* ---- file system under the themes root ----
Absent == [kind |-> "absent", wavs |-> {}]
File == [kind |-> "file", wavs |-> {}]
Dir(ws) == [kind |-> "dir", wavs |-> ws]

themes_dir == << >>

joinpath(dir, child) == Append(dir, child)

current_theme_dir(T) == joinpath(themes_dir, T)

\* pathlib.Path.exists for a path themes/t/e.wav
exists(path) ==
    /\ rootExists
    /\ Len(path) = 2
    /\ path[1] \in Names
    /\ fs[path[1]].kind = "dir"
    /\ path[2] \in fs[path[1]].wavs

\* the names of everything iterdir() yields
iterdir_names == {n \in Names : fs[n].kind # "absent"}

\* themes(): value and exception
themes == IF rootExists
          THEN [exc |-> "none", value |-> iterdir_names]
          ELSE [exc |-> "OSError", value |-> {}]

\* ---- playing ----
NoPlay == [exc |-> "none", spawned |-> FALSE, waited |-> FALSE,
           warned |-> FALSE, detached |-> FALSE, exit |-> -1,
           command |-> << >>]

\* run without the except clause: CalledProcessError reaches the caller
run_uncaught(command, silent, code) ==
    IF silent
    THEN [NoPlay EXCEPT !.spawned = TRUE, !.detached = TRUE, !.command = command]
    ELSE [NoPlay EXCEPT !.spawned = TRUE, !.waited = TRUE, !.exit = code,
                        !.exc = IF code # 0 THEN "CalledProcessError" ELSE "none",
                        !.command = command]

\* run whose except clause passes instead of warning
run_nowarn(command, silent, code) ==
    IF silent
    THEN [NoPlay EXCEPT !.spawned = TRUE, !.detached = TRUE, !.command = command]
    ELSE [NoPlay EXCEPT !.spawned = TRUE, !.waited = TRUE, !.exit = code,
                        !.command = command]

\* run that takes the subprocess.run branch whatever silent is
run_blocking(command, silent, code) ==
    [NoPlay EXCEPT !.spawned = TRUE, !.waited = TRUE, !.exit = code,
                   !.warned = (code # 0), !.command = command]

\* run(command, silent); code is the exit status of the process it starts
run(command, silent, code) ==
    IF silent
    THEN [NoPlay EXCEPT !.spawned = TRUE, !.detached = TRUE, !.command = command]
    ELSE [NoPlay EXCEPT !.spawned = TRUE, !.waited = TRUE, !.exit = code,
                        !.warned = (code # 0), !.command = command]

\* play_wav that runs the command before it looks at the platform
play_wav_late_check(path, silent, code) ==
    IF platform = "darwin"
    THEN run(<<"afplay", path>>, silent, code)
    ELSE [run(<<"afplay", path>>, silent, code) EXCEPT !.exc = "RuntimeError"]

play_wav(path, silent, code) ==
    IF platform = "darwin"
    THEN run(<<"afplay", path>>, silent, code)
    ELSE [NoPlay EXCEPT !.exc = "RuntimeError"]

\* notify that does not look whether the file exists
notify_nocheck(T, event, silent, code) ==
    LET path == joinpath(current_theme_dir(T), event) IN
    [play |-> play_wav(path, silent, code), path |-> path, played |-> TRUE]

\* notify(event, silent) with THEME = T
notify(T, event, silent, code) ==
    LET path == joinpath(current_theme_dir(T), event) IN
    IF ~exists(path)
    THEN [play |-> [NoPlay EXCEPT !.exc = "ValueError"], path |-> path,
          played |-> FALSE]
    ELSE [play |-> play_wav(path, silent, code), path |-> path,
          played |-> TRUE]

success(T, silent, code) == notify(T, "success", silent, code)
warning(T, silent, code) == notify(T, "warning", silent, code)
error(T, silent, code) == notify(T, "error", silent, code)
info(T, silent, code) == notify(T, "info", silent, code)

\* ---- the record of the most recent call ----
NoCall == [op |-> "none", arg |-> None, silent |-> FALSE, before |-> None,
           exc |-> "none", value |-> {}, ret |-> None, listed |-> FALSE,
           dirs |-> {},
           play |-> NoPlay, path |-> << >>, existed |-> FALSE, played |-> FALSE,
           complete |-> FALSE,
           mode |-> None, line |-> None, cell |-> None, executed |-> None,
           sounds |-> << >>, attempts |-> 0, default_ran |-> FALSE]

\* theme that assigns THEME before it validates the name
theme_assign_first(T, name) ==
    IF name = None
    THEN [exc |-> "none", ret |-> T, THEME |-> T]
    ELSE IF themes.exc # "none"
    THEN [exc |-> themes.exc, ret |-> None, THEME |-> name]
    ELSE IF name \notin themes.value
    THEN [exc |-> "ValueError", ret |-> None, THEME |-> name]
    ELSE [exc |-> "none", ret |-> None, THEME |-> name]

\* theme(name) with THEME = T: exception, return value and the new THEME
theme(T, name) ==
    IF name = None
    THEN [exc |-> "none", ret |-> T, THEME |-> T]
    ELSE IF themes.exc # "none"
    THEN [exc |-> themes.exc, ret |-> None, THEME |-> T]
    ELSE IF name \notin themes.value
    THEN [exc |-> "ValueError", ret |-> None, THEME |-> T]
    ELSE [exc |-> "none", ret |-> None, THEME |-> name]

\* except_hook(exctype, value, traceback) installed by notify_exceptions
except_hook(T, code) ==
    LET out == error(T, TRUE, code) IN
    [out |-> out, attempts |-> 1, default_ran |-> (out.play.exc = "none"),
     exc |-> out.play.exc]

\* HornMagics.horn(line, cell): line and cell are the programs supplied
horn(T, line, cell, code) ==
    LET executed == line
        s == success(T, TRUE, code)
        e == error(T, TRUE, code)
    IN  IF executed = "ok"
        THEN IF s.play.exc = "none"
             THEN [executed |-> "line", sounds |-> <<"success">>, exc |-> "none",
                   detached |-> IF s.play.detached THEN 1 ELSE 0]
             ELSE [executed |-> "line", sounds |-> <<"success", "error">>,
                   exc |-> e.play.exc,
                   detached |-> IF e.play.detached THEN 1 ELSE 0]
        ELSE IF executed = "raise_Exception"
        THEN [executed |-> "line", sounds |-> <<"error">>, exc |-> e.play.exc,
              detached |-> IF e.play.detached THEN 1 ELSE 0]
        ELSE [executed |-> "line", sounds |-> << >>, exc |-> "BaseException",
              detached |-> 0]

\* ---- initial state: the package as shipped, nothing called yet ----
Init ==
    /\ THEME = "mario"
    /\ platform \in Platforms
    /\ rootExists = TRUE
    /\ fs = [n \in Names |-> Dir(Events)]
    /\ running = 0
    /\ excepthook = "default"
    /\ IPYTHON_INSTALLED = FALSE
    /\ in_shell = FALSE
    /\ watchers = 0
    /\ magics = FALSE
    /\ last = NoCall

\* the same, in an interpreter where IPython may be importable and may be
\* the running shell
InitNotebook ==
    /\ THEME = "mario"
    /\ platform \in Platforms
    /\ rootExists = TRUE
    /\ fs = [n \in Names |-> Dir(Events)]
    /\ running = 0
    /\ excepthook = "default"
    /\ IPYTHON_INSTALLED \in BOOLEAN
    /\ in_shell \in BOOLEAN
    /\ in_shell => IPYTHON_INSTALLED
    /\ watchers = 0
    /\ magics = FALSE
    /\ last = NoCall

Detached(play) == IF play.detached THEN 1 ELSE 0

\* ---- calls of the library ----
Call_themes ==
    /\ last' = [NoCall EXCEPT !.op = "themes", !.exc = themes.exc,
                              !.value = themes.value,
                              !.listed = (themes.exc = "none"),
                              !.dirs = {n \in Names : fs[n].kind = "dir"}]
    /\ UNCHANGED <<THEME, platform, rootExists, fs, running, excepthook,
                   IPYTHON_INSTALLED, in_shell, watchers, magics>>

Call_theme(name) ==
    LET r == theme(THEME, name) IN
    /\ THEME' = r.THEME
    /\ last' = [NoCall EXCEPT !.op = "theme", !.arg = name, !.before = THEME,
                              !.exc = r.exc, !.ret = r.ret,
                              !.value = themes.value,
                              !.listed = (themes.exc = "none"),
                              !.dirs = {n \in Names : fs[n].kind = "dir"}]
    /\ UNCHANGED <<platform, rootExists, fs, running, excepthook,
                   IPYTHON_INSTALLED, in_shell, watchers, magics>>

Call_play_wav(path, silent, code) ==
    LET p == play_wav(path, silent, code) IN
    /\ running + Detached(p) <= MaxRunning
    /\ running' = running + Detached(p)
    /\ last' = [NoCall EXCEPT !.op = "play_wav", !.silent = silent,
                              !.before = THEME, !.exc = p.exc, !.play = p,
                              !.path = path, !.existed = exists(path),
                              !.played = TRUE]
    /\ UNCHANGED <<THEME, platform, rootExists, fs, excepthook,
                   IPYTHON_INSTALLED, in_shell, watchers, magics>>

\* theme directory t is listed and holds all four sound files
Complete(t) ==
    /\ themes.exc = "none"
    /\ t \in themes.value
    /\ fs[t].kind = "dir"
    /\ fs[t].wavs = Events

\* a call of notify or of one of its wrappers, with its outcome out
Notified(op, event, silent, out) ==
    /\ running + Detached(out.play) <= MaxRunning
    /\ running' = running + Detached(out.play)
    /\ last' = [NoCall EXCEPT !.op = op, !.arg = event, !.silent = silent,
                              !.before = THEME, !.exc = out.play.exc,
                              !.play = out.play, !.path = out.path,
                              !.existed = exists(<<THEME, event>>),
                              !.complete = Complete(THEME),
                              !.played = out.played]
    /\ UNCHANGED <<THEME, platform, rootExists, fs, excepthook,
                   IPYTHON_INSTALLED, in_shell, watchers, magics>>

Call_notify(event, silent, code) ==
    Notified("notify", event, silent, notify(THEME, event, silent, code))

Call_success(silent, code) ==
    Notified("success", "success", silent, success(THEME, silent, code))

Call_warning(silent, code) ==
    Notified("warning", "warning", silent, warning(THEME, silent, code))

Call_error(silent, code) ==
    Notified("error", "error", silent, error(THEME, silent, code))

Call_info(silent, code) ==
    Notified("info", "info", silent, info(THEME, silent, code))

\* ---- exception hook and IPython integration ----
Call_notify_exceptions ==
    /\ in_shell => watchers < MaxWatchers
    /\ excepthook' = "except_hook"
    /\ watchers' = IF in_shell THEN watchers + 1 ELSE watchers
    /\ last' = [NoCall EXCEPT !.op = "notify_exceptions",
                   !.exc = IF IPYTHON_INSTALLED /\ ~in_shell
                           THEN "NameError" ELSE "none"]
    /\ UNCHANGED <<THEME, platform, rootExists, fs, running,
                   IPYTHON_INSTALLED, in_shell, magics>>

\* an uncaught exception reaches sys.excepthook
UncaughtException(code) ==
    /\ IF excepthook = "except_hook"
       THEN LET h == except_hook(THEME, code) IN
            /\ running + Detached(h.out.play) <= MaxRunning
            /\ running' = running + Detached(h.out.play)
            /\ last' = [NoCall EXCEPT !.op = "except_hook", !.arg = "error",
                           !.silent = TRUE, !.before = THEME, !.exc = h.exc,
                           !.play = h.out.play, !.path = h.out.path,
                           !.existed = exists(<<THEME, "error">>),
                           !.played = h.out.played,
                           !.attempts = h.attempts,
                           !.default_ran = h.default_ran]
       ELSE /\ running' = running
            /\ last' = [NoCall EXCEPT !.op = "__excepthook__",
                                      !.default_ran = TRUE]
    /\ UNCHANGED <<THEME, platform, rootExists, fs, excepthook,
                   IPYTHON_INSTALLED, in_shell, watchers, magics>>

\* the shell fires post_run_cell: every registered Watcher.post_run_cell runs,
\* and the shell catches what a callback raises
post_run_cell(error_in_exec, code) ==
    LET out == error(THEME, TRUE, code)
        n == IF error_in_exec THEN watchers ELSE 0
    IN
    /\ in_shell
    /\ watchers > 0
    /\ running + n * Detached(out.play) <= MaxRunning
    /\ running' = running + n * Detached(out.play)
    /\ last' = [NoCall EXCEPT !.op = "post_run_cell", !.arg = "error",
                   !.silent = TRUE, !.before = THEME,
                   !.attempts = n,
                   !.play = IF n > 0 THEN out.play ELSE NoPlay,
                   !.path = IF n > 0 THEN out.path ELSE << >>,
                   !.existed = (n > 0 /\ exists(<<THEME, "error">>)),
                   !.played = (n > 0 /\ out.played)]
    /\ UNCHANGED <<THEME, platform, rootExists, fs, excepthook,
                   IPYTHON_INSTALLED, in_shell, watchers, magics>>

load_ipython_extension ==
    /\ in_shell
    /\ magics' = TRUE
    /\ last' = [NoCall EXCEPT !.op = "load_ipython_extension"]
    /\ UNCHANGED <<THEME, platform, rootExists, fs, running, excepthook,
                   IPYTHON_INSTALLED, in_shell, watchers>>

\* %horn line (cell = None) or %%horn line / cell
Call_horn(line, cell, code) ==
    LET h == horn(THEME, line, cell, code) IN
    /\ magics
    /\ running + h.detached <= MaxRunning
    /\ running' = running + h.detached
    /\ last' = [NoCall EXCEPT !.op = "horn", !.before = THEME,
                   !.mode = IF cell = None THEN "line" ELSE "cell",
                   !.line = line, !.cell = cell, !.executed = h.executed,
                   !.sounds = h.sounds, !.exc = h.exc]
    /\ UNCHANGED <<THEME, platform, rootExists, fs, excepthook,
                   IPYTHON_INSTALLED, in_shell, watchers, magics>>

\* ---- the environment ----
\* a detached player process exits with the status code; nobody waits for it
\* and its stderr goes to DEVNULL
ChildExit(code) ==
    /\ running > 0
    /\ code \in ExitCodes
    /\ running' = running - 1
    /\ UNCHANGED <<THEME, platform, rootExists, fs, excepthook,
                   IPYTHON_INSTALLED, in_shell, watchers, magics, last>>

FsChange(newRoot, newFs) ==
    /\ rootExists' = newRoot
    /\ fs' = newFs
    /\ UNCHANGED <<THEME, platform, running, excepthook,
                   IPYTHON_INSTALLED, in_shell, watchers, magics, last>>

\* sound files missing from the theme directories among the names in S
RECURSIVE Missing(_)
Missing(S) ==
    IF S = {} THEN 0
    ELSE LET n == CHOOSE x \in S : TRUE IN
         (IF fs[n].kind = "dir" THEN Cardinality(Events \ fs[n].wavs) ELSE 0)
             + Missing(S \ {n})

RemoveSound(n, e) ==
    /\ fs[n].kind = "dir"
    /\ e \in fs[n].wavs
    /\ Missing(Names) < MaxMissing
    /\ FsChange(rootExists, [fs EXCEPT ![n] = Dir(fs[n].wavs \ {e})])

AddSound(n, e) ==
    /\ fs[n].kind = "dir"
    /\ e \notin fs[n].wavs
    /\ FsChange(rootExists, [fs EXCEPT ![n] = Dir(fs[n].wavs \cup {e})])

InstallTheme(n) ==
    /\ rootExists
    /\ fs[n].kind = "absent"
    /\ FsChange(rootExists, [fs EXCEPT ![n] = Dir(Events)])

CreateFile(n) ==
    /\ rootExists
    /\ fs[n].kind = "absent"
    /\ FsChange(rootExists, [fs EXCEPT ![n] = File])

RemoveEntry(n) ==
    /\ fs[n].kind # "absent"
    /\ FsChange(rootExists, [fs EXCEPT ![n] = Absent])

RemoveRoot ==
    /\ rootExists
    /\ FsChange(FALSE, [n \in Names |-> Absent])

CreateRoot ==
    /\ ~rootExists
    /\ FsChange(TRUE, fs)

Paths == {<<n, e>> : n \in Names, e \in Events}

\* the exit statuses a call can see: only a player that is waited for has one
Statuses(silent) == IF silent THEN {0} ELSE ExitCodes

Next ==
    \/ Call_themes
    \/ \E name \in Names \cup {None} : Call_theme(name)
    \/ \E path \in Paths, silent \in BOOLEAN : \E code \in Statuses(silent) :
          Call_play_wav(path, silent, code)
    \/ \E event \in Events, silent \in BOOLEAN : \E code \in Statuses(silent) :
          Call_notify(event, silent, code)
    \/ \E silent \in BOOLEAN : \E code \in Statuses(silent) :
          Call_success(silent, code)
    \/ \E silent \in BOOLEAN : \E code \in Statuses(silent) :
          Call_warning(silent, code)
    \/ \E silent \in BOOLEAN : \E code \in Statuses(silent) :
          Call_error(silent, code)
    \/ \E silent \in BOOLEAN : \E code \in Statuses(silent) :
          Call_info(silent, code)
    \/ \E code \in ExitCodes : ChildExit(code)
    \/ \E n \in Names, e \in Events : RemoveSound(n, e)
    \/ \E n \in Names, e \in Events : AddSound(n, e)
    \/ \E n \in Names : InstallTheme(n)
    \/ \E n \in Names : CreateFile(n)
    \/ \E n \in Names : RemoveEntry(n)
    \/ RemoveRoot
    \/ CreateRoot

\* the library used directly
Spec == Init /\ [][Next]_vars

NextNotebook ==
    \/ \E name \in Names \cup {None} : Call_theme(name)
    \/ Call_notify_exceptions
    \/ \E code \in Statuses(TRUE) : UncaughtException(code)
    \/ \E error_in_exec \in BOOLEAN, code \in Statuses(TRUE) :
          post_run_cell(error_in_exec, code)
    \/ load_ipython_extension
    \/ \E line \in Programs, cell \in Programs \cup {None},
          code \in Statuses(TRUE) :
          Call_horn(line, cell, code)
    \/ \E code \in ExitCodes : ChildExit(code)
    \/ \E n \in Names, e \in Events : RemoveSound(n, e)
    \/ \E n \in Names, e \in Events : AddSound(n, e)
    \/ \E n \in Names : InstallTheme(n)
    \/ \E n \in Names : CreateFile(n)
    \/ \E n \in Names : RemoveEntry(n)
    \/ RemoveRoot
    \/ CreateRoot

\* the exception hook and the IPython integration
SpecNotebook == InitNotebook /\ [][NextNotebook]_vars

TypeOK ==
    /\ THEME \in Names
    /\ running \in 0..MaxRunning
    /\ ~rootExists => \A n \in Names : fs[n].kind = "absent"

\* ---- properties ----
Wrappers == {"success", "warning", "error", "info"}
NotifyOps == {"notify"} \cup Wrappers
PlayOps == {"play_wav"} \cup NotifyOps

\* C1: when an uncaught exception reaches except_hook, one error-sound
\* attempt is made and then the default hook runs, whatever the theme
\* directory and the platform are.
C1_HookRunsDefault ==
    last.op = "except_hook" => (last.attempts = 1 /\ last.default_ran)

\* C2 as stated: for a listed theme holding all four files, a blocking
\* notify (silent = False) of any event returns without raising, on every
\* platform and for every exit status of the player.
C2_AnyPlatform ==
    (last.op \in NotifyOps /\ ~last.silent /\ last.complete)
        => last.exc = "none"

\* C2 amended: the same on a supported platform (darwin).
C2_CompleteThemeNoRaise ==
    (last.op \in NotifyOps /\ ~last.silent /\ last.complete
        /\ platform = "darwin")
        => (last.exc = "none" /\ last.play.spawned)

C2_Witness ==
    /\ last.op \in NotifyOps /\ ~last.silent /\ last.complete
    /\ platform = "darwin"
    /\ last.before = "zelda"
    /\ last.play.exit = 1
    /\ last.exc = "none"

\* C3: the documented meaning of silent: silent = True waits for the player
\* and warns when it fails; silent = False does not wait and never warns.
C3_SilentAsDocumented ==
    (last.op \in ({"play_wav"} \cup Wrappers) /\ last.play.spawned)
        => IF last.silent
           THEN last.play.waited /\ (last.play.exit # 0 => last.play.warned)
           ELSE ~last.play.waited /\ ~last.play.warned

\* C4: horn executes the supplied code (line in line mode, cell body in
\* cell mode) and attempts exactly one sound: success iff the supplied code
\* did not raise, error iff it raised.
C4_HornOneSound ==
    last.op = "horn" =>
        LET supplied == IF last.mode = "line" THEN last.line ELSE last.cell IN
        /\ last.executed = last.mode
        /\ Len(last.sounds) = 1
        /\ (last.sounds[1] = "success") <=> (supplied = "ok")
        /\ (last.sounds[1] = "error") <=> (supplied # "ok")

C6_ThemesAreDirectories ==
    /\ (last.op = "themes" /\ last.listed) => last.value = last.dirs
    /\ (last.op = "theme" /\ last.arg # None /\ last.exc = "none")
          => last.arg \in last.dirs

\* C7: theme(name) with a name that themes() does not contain raises
\* ValueError and leaves THEME as it was.
C7_UnknownThemeRejected ==
    (last.op = "theme" /\ last.arg # None /\ last.listed
        /\ last.arg \notin last.value)
        => (last.exc = "ValueError" /\ THEME = last.before
            /\ theme(THEME, None).ret = last.before)

C7_Witness ==
    /\ last.op = "theme" /\ last.arg = "zelda" /\ last.listed
    /\ last.arg \notin last.value
    /\ last.exc = "ValueError"
    /\ THEME = "mario"

\* C8: on a platform other than darwin no player process is ever started,
\* and every play_wav, and every notify or wrapper whose file exists, raises
\* RuntimeError.
C8_UnsupportedPlatform ==
    platform # "darwin" =>
        /\ running = 0
        /\ (last.op \in PlayOps /\ last.played)
              => (last.exc = "RuntimeError" /\ ~last.play.spawned)
        /\ (last.op \in NotifyOps /\ last.existed) => last.played

C8_Witness ==
    /\ platform # "darwin"
    /\ last.op = "warning" /\ last.silent /\ last.existed
    /\ last.exc = "RuntimeError"
    /\ ~last.play.spawned

C10_NotifyResolves ==
    last.op \in NotifyOps =>
        /\ last.path = <<last.before, last.arg>>
        /\ THEME = last.before
        /\ ~last.existed => /\ last.exc = "ValueError"
                            /\ ~last.play.spawned
                            /\ ~last.played
        /\ last.played <=> last.existed
        /\ last.play.spawned => last.play.command = <<"afplay", last.path>>

C10_Witness ==
    /\ last.op = "notify" /\ last.arg = "info" /\ last.before = "zelda"
    /\ platform = "linux"
    /\ ~last.existed
    /\ last.exc = "ValueError"
    /\ ~last.play.spawned

====
